---- MODULE Spec2Model ----
(***************************************************************************)
(* Model of the expense tracker of src/app.py: the ExpenseTracker class    *)
(* (record store, aggregation, budget alerts, forecast), the handlers of   *)
(* the user interface that change the store (the budget form and the       *)
(* insights page), and a second process working on the same two files.     *)
(*                                                                         *)
(* A pandas DataFrame is modelled as a record                              *)
(*   [dtype, extra, rows]                                                  *)
(* where dtype is the dtype of the 'date' column, extra tells whether the  *)
(* columns 'year' and 'month' exist, and rows is the sequence of rows.     *)
(* A cell of the 'date' column is a Timestamp [kind |-> "ts", y, m, d] or  *)
(* a Python string [kind |-> "str", y, m, d, long]; the string reads       *)
(* "y-m-d" and, when long, "y-m-d 00:00:00".  A float NaN cell is the      *)
(* value NaN.  Amounts are whole rupees.                                   *)
(***************************************************************************)
EXTENDS Integers, Sequences, FiniteSets, TLC

\* ------------------------------------------------------------------ bounds
\* the number of add_expense calls of a behaviour, per specification
MaxAppends == 3

MaxQueryAppends == 2

MaxForecastAppends == 3

MaxInsightAppends == 2

MaxTrendAppends == 5

MaxWriterAppends == 2

\* ------------------------------------------------------------ categories
Categories == {"Food", "Travel"}

\* groupby sorts its keys: the categories in ascending order
CategoryOrder == <<"Food", "Travel">>

\* ------------------------------------------------------------ calendar
\* the float NaN that read_csv puts in place of an empty field
NaN == "<NaN>"

IsLeap(y) == (y % 4 = 0 /\ y % 100 # 0) \/ y % 400 = 0

DaysInMonth(y, m) ==
  IF m \in {4, 6, 9, 11} THEN 30
  ELSE IF m = 2 THEN (IF IsLeap(y) THEN 29 ELSE 28)
  ELSE 31

IsCalendarDate(y, m, d) ==
  /\ y >= 1 /\ m \in 1..12
  /\ d >= 1 /\ d <= DaysInMonth(y, m)

NaT == [kind |-> "NaT"]

Timestamp(y, m, d) == [kind |-> "ts", y |-> y, m |-> m, d |-> d]

DateStr(y, m, d, long) ==
  [kind |-> "str", y |-> y, m |-> m, d |-> d, long |-> long]

\* ------------------------------------------------------------ sequences
\* Series.sum()
RECURSIVE Sum(_)
Sum(seq) == IF Len(seq) = 0 THEN 0 ELSE Head(seq) + Sum(Tail(seq))

SumAmounts(rows) == Sum([i \in 1..Len(rows) |-> rows[i].amount])

\* ------------------------------------------------------------ state
\* expenses_df, budgets   the fields of the ExpenseTracker object
\* data_file, budget_file expenses.csv and budgets.json on disk
\* result                 the last call and what it returned or raised
\* appended               the arguments of the add_expense calls so far
\* infer_format           the installed pandas guesses one date format per
\*                        column (2.0 and later) or parses row by row
\* other_df, other_budgets the fields of the ExpenseTracker object of a
\*                        second process that runs in the same directory
\* writers                the processes, 1 or 2, that have called
\*                        add_expense or set_budget so far
VARIABLES expenses_df, budgets, data_file, budget_file, result, appended,
          infer_format, other_df, other_budgets, writers

vars == <<expenses_df, budgets, data_file, budget_file, result, appended,
          infer_format, other_df, other_budgets, writers>>

\* the object of the second process
second == <<other_df, other_budgets>>

\* ------------------------------------------------------------ frames
\* pd.DataFrame(columns=['date', 'category', 'amount', 'description']):
\* no row, every column of dtype object
EmptyFrame == [dtype |-> "object", extra |-> FALSE, rows |-> <<>>]

EmptyDict == [c \in {} |-> 0]

\* the (date, category, amount, description) tuple of a row, the date as a
\* calendar date
Tuple(r) ==
  [y |-> r.date.y, m |-> r.date.m, d |-> r.date.d,
   category |-> r.category, amount |-> r.amount,
   description |-> r.description]

Tuples(rows) == [i \in 1..Len(rows) |-> Tuple(rows[i])]

\* ------------------------------------------------------------ save_data
\* DataFrame.to_csv writes a datetime64 column whose times are all midnight
\* as dates, and an object column cell by cell with str(): a Timestamp as
\* "y-m-d 00:00:00", a string as it is
DateToCsv(cell, dtype) ==
  IF cell.kind = "ts"
  THEN [y |-> cell.y, m |-> cell.m, d |-> cell.d, long |-> dtype = "object"]
  ELSE [y |-> cell.y, m |-> cell.m, d |-> cell.d, long |-> cell.long]

\* to_csv writes NaN as the empty field
TextToCsv(t) == IF t = NaN THEN "" ELSE t

to_csv(df) ==
  LET CsvRow(r) ==
        [date |-> DateToCsv(r.date, df.dtype),
         category |-> r.category,
         amount |-> r.amount,
         description |-> TextToCsv(r.description),
         ym |-> r.ym]
  IN  [exists |-> TRUE, extra |-> df.extra,
       rows |-> [i \in 1..Len(df.rows) |-> CsvRow(df.rows[i])]]

\* json.dump of the budget dict: a JSON object, a set of key/value members
json_dump(dict) ==
  [exists |-> TRUE, members |-> { <<c, dict[c]>> : c \in DOMAIN dict }]

\* ------------------------------------------------------------ load_data
\* read_csv reads the empty field as NaN
CsvToText(t) == IF t = "" THEN NaN ELSE t

Resolvable(t) == IsCalendarDate(t.y, t.m, t.d)

\* pd.to_datetime(column, errors='coerce') on the strings of the file, the
\* result per row being a Timestamp or NaT.  pandas before 2.0 parses each
\* string by itself; pandas 2.0 and later guess one format from the first
\* string and hold every string to it, and parse each string by itself only
\* when no format can be guessed from the first.
to_datetime(texts, infer) ==
  LET first == texts[1]
      one_format == infer /\ texts # <<>> /\ Resolvable(first)
      Parsed(t) ==
        IF Resolvable(t) /\ (one_format => t.long = first.long)
        THEN Timestamp(t.y, t.m, t.d)
        ELSE NaT
  IN  [i \in 1..Len(texts) |-> Parsed(texts[i])]

RECURSIVE DropNaT(_, _, _)
DropNaT(rows, dates, i) ==
  IF i > Len(rows) THEN <<>>
  ELSE IF dates[i] = NaT THEN DropNaT(rows, dates, i + 1)
  ELSE <<[date |-> dates[i],
          category |-> rows[i].category,
          amount |-> rows[i].amount,
          description |-> CsvToText(rows[i].description),
          ym |-> rows[i].ym]>> \o DropNaT(rows, dates, i + 1)

read_expenses(file, infer) ==
  IF file.exists
  THEN LET texts == [i \in 1..Len(file.rows) |-> file.rows[i].date]
           dates == to_datetime(texts, infer)
       IN  [dtype |-> "datetime64", extra |-> file.extra,
            rows |-> DropNaT(file.rows, dates, 1)]
  ELSE EmptyFrame

json_load(file) ==
  IF file.exists
  THEN [c \in { mem[1] : mem \in file.members } |->
          (CHOOSE mem \in file.members : mem[1] = c)[2]]
  ELSE EmptyDict

\* ------------------------------------------------------------ queries
\* the outcome of a call: a returned value, or the exception it raised
Returned(v) == [status |-> "ok", value |-> v]

Raised(e) == [status |-> e, value |-> <<>>]

\* Series.dt exists for a datetime64 column only; on an object column the
\* attribute access raises AttributeError
HasDt(df) == df.dtype = "datetime64"

MonthlySummary(df, year, month) ==
  IF ~HasDt(df) THEN Raised("AttributeError")
  ELSE Returned(SelectSeq(df.rows,
                  LAMBDA r : r.date.y = year /\ r.date.m = month))

\* groupby('category')['amount'].sum().reset_index(): one row per category
\* that occurs, in ascending order of the category
RECURSIVE GroupByCategory(_, _)
GroupByCategory(rows, i) ==
  IF i > Len(CategoryOrder) THEN <<>>
  ELSE LET c == CategoryOrder[i]
           of_c == SelectSeq(rows, LAMBDA r : r.category = c)
       IN  (IF of_c = <<>> THEN <<>>
            ELSE <<[category |-> c, amount |-> SumAmounts(of_c)]>>)
           \o GroupByCategory(rows, i + 1)

CategoryTotals(df, year, month) ==
  LET monthly_data == MonthlySummary(df, year, month)
  IN  IF monthly_data.status # "ok" THEN monthly_data
      ELSE IF monthly_data.value = <<>> THEN Returned(<<>>)
      ELSE Returned(GroupByCategory(monthly_data.value, 1))

\* dict.get(category, 0)
BudgetOf(dict, category) ==
  IF category \in DOMAIN dict THEN dict[category] ELSE 0

Overspent(budget, spent) == budget > 0 /\ spent > budget

RECURSIVE AlertsOf(_, _)
AlertsOf(category_totals, dict) ==
  IF category_totals = <<>> THEN <<>>
  ELSE LET row == Head(category_totals)
           budget == BudgetOf(dict, row.category)
           spent == row.amount
       IN  (IF Overspent(budget, spent)
            THEN <<[category |-> row.category, budget |-> budget,
                    spent |-> spent, overspend |-> spent - budget]>>
            ELSE <<>>)
           \o AlertsOf(Tail(category_totals), dict)

BudgetAlerts(df, dict, year, month) ==
  LET monthly_data == MonthlySummary(df, year, month)
  IN  IF monthly_data.status # "ok" THEN monthly_data
      ELSE IF monthly_data.value = <<>> THEN Returned(<<>>)
      ELSE LET category_totals == CategoryTotals(df, year, month)
           IN  Returned(AlertsOf(category_totals.value, dict))

\* ------------------------------------------------------------ forecast
\* as MonthNum, the month counted before the year
MonthNum_MonthFirst(year, month) == month * 10000 + year

\* monthly_totals['year'] * 12 + monthly_totals['month']; the keys of
\* groupby(['year', 'month']) are sorted in this order
MonthNum(year, month) == year * 12 + month

Range(seq) == { seq[i] : i \in 1..Len(seq) }

\* groupby(['year', 'month'])['amount'].sum().reset_index() with the column
\* month_num: one row per (year, month) that occurs, in ascending order
RECURSIVE GroupByMonth(_, _)
GroupByMonth(rows, keys) ==
  IF keys = {} THEN <<>>
  ELSE LET k == CHOOSE k1 \in keys : \A k2 \in keys :
                   MonthNum(k1.y, k1.m) <= MonthNum(k2.y, k2.m)
           of_k == SelectSeq(rows,
                     LAMBDA r : r.date.y = k.y /\ r.date.m = k.m)
       IN  <<[year |-> k.y, month |-> k.m, amount |-> SumAmounts(of_k),
              month_num |-> MonthNum(k.y, k.m)]>>
           \o GroupByMonth(rows, keys \ {k})

MonthlyTotals(rows) ==
  GroupByMonth(rows, { [y |-> r.date.y, m |-> r.date.m] : r \in Range(rows) })

\* LinearRegression().fit(X, y), ordinary least squares with an intercept,
\* over the rows of monthly_totals.  The fitted line is kept as the exact
\* fraction  (Sy*D + B*(n*(x - x0) - Sx)) / (n*D)  with the feature taken
\* relative to x0, the first month_num (the fit centres the feature, so the
\* line does not depend on x0).
LinearRegression_fit(monthly_totals) ==
  LET x0 == monthly_totals[1].month_num
      n  == Len(monthly_totals)
      X == [i \in 1..n |-> monthly_totals[i].month_num - x0]
      y == [i \in 1..n |-> monthly_totals[i].amount]
      Sx == Sum(X)
      Sy == Sum(y)
      Sxx == Sum([i \in 1..n |-> X[i] * X[i]])
      Sxy == Sum([i \in 1..n |-> X[i] * y[i]])
  IN  [x0 |-> x0, n |-> n, Sx |-> Sx, Sy |-> Sy,
       D |-> n * Sxx - Sx * Sx, B |-> n * Sxy - Sx * Sy]

\* model.predict([[x]])[0], a fraction num/den with den > 0
model_predict(model, x) ==
  [num |-> model.Sy * model.D + model.B * (model.n * (x - model.x0) - model.Sx),
   den |-> model.n * model.D]

\* as Max0, without the floor
Max0_NoClamp(prediction) == prediction

\* max(0, prediction)
Max0(prediction) ==
  IF prediction.num > 0 THEN prediction ELSE [num |-> 0, den |-> 1]

\* the frame after lines 133-134: columns year and month set on every row
WithYearMonth(df) ==
  [dtype |-> df.dtype, extra |-> TRUE,
   rows |-> [i \in 1..Len(df.rows) |-> [df.rows[i] EXCEPT !.ym = "val"]]]

NoAmount == [num |-> 0, den |-> 0]

\* the outcome of predict_next_month and the frame it leaves: value is
\* <<amount, message>>, the amount None being NoAmount
Prediction(df, now) ==
  IF Len(df.rows) < 3
  THEN [out |-> Returned(<<NoAmount, "Not enough data for prediction">>),
        df |-> df]
  ELSE IF ~HasDt(df)
  THEN [out |-> Raised("AttributeError"), df |-> df]
  ELSE LET monthly_totals == MonthlyTotals(df.rows)
       IN  IF Len(monthly_totals) < 3
           THEN [out |-> Returned(<<NoAmount,
                           "Not enough monthly data for prediction">>),
                 df |-> WithYearMonth(df)]
           ELSE LET model == LinearRegression_fit(monthly_totals)
                    next_month_num == now.y * 12 + now.m + 1
                    prediction == model_predict(model, next_month_num)
                IN  [out |-> Returned(<<Max0(prediction),
                                "Prediction based on historical data">>),
                     df |-> WithYearMonth(df)]

\* ------------------------------------------------------------ insights
\* the Series groupby(['year', 'month'])['amount'].sum() of line 461, keyed
\* by (year, month) in ascending order
InsightTotals(rows) ==
  LET totals == MonthlyTotals(rows)
  IN  [i \in 1..Len(totals) |->
         [year |-> totals[i].year, month |-> totals[i].month,
          amount |-> totals[i].amount]]

\* Series.tail(3) and Series.head(-3)
Tail3(series) ==
  IF Len(series) <= 3 THEN series
  ELSE SubSeq(series, Len(series) - 2, Len(series))

HeadMinus3(series) ==
  IF Len(series) <= 3 THEN <<>> ELSE SubSeq(series, 1, Len(series) - 3)

\* ((recent_avg - previous_avg) / previous_avg) * 100 as the exact fraction
\* num/den with den >= 0, where recent_avg = Sr/kr and previous_avg = Sp/kp.
\* A float division by zero gives inf, -inf or nan and does not raise: that
\* is den = 0 with num > 0, num < 0 or num = 0.
ChangePercent(monthly_totals) ==
  LET n == Len(monthly_totals)
      recent == Tail3(monthly_totals)
      previous == IF n > 3 THEN HeadMinus3(monthly_totals)
                  ELSE <<monthly_totals[1]>>                     \* iloc[0]
      Sr == SumAmounts(recent)
      kr == Len(recent)
      Sp == SumAmounts(previous)
      kp == Len(previous)
      num == (Sr * kp - Sp * kr) * 100
      den == Sp * kr
  IN  IF den >= 0 THEN [num |-> num, den |-> den]
      ELSE [num |-> -num, den |-> -den]

\* change > bound and change < bound, as the float comparison decides them:
\* every comparison with nan is false
Above(change, bound) ==
  IF change.den > 0 THEN change.num > bound * change.den ELSE change.num > 0

Below(change, bound) ==
  IF change.den > 0 THEN change.num < bound * change.den ELSE change.num < 0

NoTrend == [label |-> "none", change |-> NoAmount]

\* as TrendOf, a change of exactly 10 percent counted as an increase
TrendOf_AtLeast10(monthly_totals) ==
  IF Len(monthly_totals) >= 2
  THEN LET change_percent == ChangePercent(monthly_totals)
       IN  [label |-> IF ~Below(change_percent, 10) THEN "increasing"
                      ELSE IF Below(change_percent, -10) THEN "decreasing"
                      ELSE "stable",
            change |-> change_percent]
  ELSE NoTrend

\* lines 463-474: the message chosen, and the change it shows
TrendOf(monthly_totals) ==
  IF Len(monthly_totals) >= 2
  THEN LET change_percent == ChangePercent(monthly_totals)
       IN  [label |-> IF Above(change_percent, 10) THEN "increasing"
                      ELSE IF Below(change_percent, -10) THEN "decreasing"
                      ELSE "stable",
            change |-> change_percent]
  ELSE NoTrend

NoInsight == [monthly_totals |-> <<>>, trend |-> NoTrend]

\* the outcome of show_ai_insights and the frame it leaves: the handler
\* returns at once on an empty frame, and else sets the columns year and
\* month of the tracker's frame before it groups by them
Insights(df) ==
  IF df.rows = <<>>
  THEN [out |-> Returned(NoInsight), df |-> df]
  ELSE IF ~HasDt(df)
  THEN [out |-> Raised("AttributeError"), df |-> df]
  ELSE LET monthly_totals == InsightTotals(df.rows)
       IN  [out |-> Returned([monthly_totals |-> monthly_totals,
                              trend |-> TrendOf(monthly_totals)]),
            df |-> WithYearMonth(df)]

\* ------------------------------------------------------------ operations
Result(op, args, out) ==
  [op |-> op, args |-> args, status |-> out.status, value |-> out.value]

\* ExpenseTracker(): the directory holds no file yet, and __init__ has run
\* load_data, in this process and in the second.  infer_format tells which
\* pandas is installed.
Init ==
  /\ data_file = [exists |-> FALSE, extra |-> FALSE, rows |-> <<>>]
  /\ budget_file = [exists |-> FALSE, members |-> {}]
  /\ expenses_df = EmptyFrame
  /\ budgets = EmptyDict
  /\ result = Result("__init__", <<>>, Returned(<<>>))
  /\ appended = <<>>
  /\ infer_format \in BOOLEAN
  /\ other_df = EmptyFrame
  /\ other_budgets = EmptyDict
  /\ writers = {}

\* load_data, also run by the constructor of every new process
load_data ==
  /\ expenses_df' = read_expenses(data_file, infer_format)
  /\ budgets' = json_load(budget_file)
  /\ result' = Result("load_data", <<>>, Returned(<<>>))
  /\ UNCHANGED <<data_file, budget_file, appended, infer_format, second,
                 writers>>

\* pd.concat([expenses_df, new_expense], ignore_index=True): the date column
\* of new_expense holds a string, so the date column of the result is of
\* dtype object; a column new_expense lacks is NaN in the new row
Concat(df, new_expense) ==
  [dtype |-> "object", extra |-> df.extra,
   rows |-> Append(df.rows,
              [new_expense EXCEPT
                 !.ym = IF df.extra THEN "nan" ELSE "absent"])]

\* date is a datetime.date when date.isdate, else any other object, whose
\* str() reads "y-m-d"
add_expense(date, category, amount, description) ==
  LET date_str == IF date.isdate
                  THEN DateStr(date.y, date.m, date.d, FALSE)   \* strftime
                  ELSE DateStr(date.y, date.m, date.d, FALSE)   \* str(date)
      new_expense == [date |-> date_str, category |-> category,
                      amount |-> amount, description |-> description,
                      ym |-> "absent"]
      df == Concat(expenses_df, new_expense)
  IN  /\ date.isdate => IsCalendarDate(date.y, date.m, date.d)
      /\ expenses_df' = df
      /\ data_file' = to_csv(df)                                \* save_data
      /\ budget_file' = json_dump(budgets)
      /\ appended' = Append(appended,
                       [y |-> date.y, m |-> date.m, d |-> date.d,
                        category |-> category, amount |-> amount,
                        description |-> description])
      /\ result' = Result("add_expense", <<>>, Returned(<<>>))
      /\ writers' = writers \cup {1}
      /\ UNCHANGED <<budgets, infer_format, second>>

\* show_budget_management, the submitted form
set_budget(category, budget_amount) ==
  LET dict == [c \in DOMAIN budgets \cup {category} |->
                 IF c = category THEN budget_amount ELSE budgets[c]]
  IN  /\ budgets' = dict
      /\ data_file' = to_csv(expenses_df)                       \* save_data
      /\ budget_file' = json_dump(dict)
      /\ result' = Result("set_budget", <<>>, Returned(<<>>))
      /\ writers' = writers \cup {1}
      /\ UNCHANGED <<expenses_df, appended, infer_format, second>>

get_monthly_summary(year, month) ==
  /\ result' = Result("get_monthly_summary", <<year, month>>,
                      MonthlySummary(expenses_df, year, month))
  /\ UNCHANGED <<expenses_df, budgets, data_file, budget_file, appended,
                 infer_format, second, writers>>

get_category_totals(year, month) ==
  /\ result' = Result("get_category_totals", <<year, month>>,
                      CategoryTotals(expenses_df, year, month))
  /\ UNCHANGED <<expenses_df, budgets, data_file, budget_file, appended,
                 infer_format, second, writers>>

check_budget_alerts(year, month) ==
  /\ result' = Result("check_budget_alerts", <<year, month>>,
                      BudgetAlerts(expenses_df, budgets, year, month))
  /\ UNCHANGED <<expenses_df, budgets, data_file, budget_file, appended,
                 infer_format, second, writers>>

\* now is datetime.now(), as (year, month)
predict_next_month(now) ==
  LET p == Prediction(expenses_df, now)
  IN  /\ expenses_df' = p.df
      /\ result' = Result("predict_next_month", <<now.y, now.m>>, p.out)
      /\ UNCHANGED <<budgets, data_file, budget_file, appended, infer_format,
                     second, writers>>

\* show_ai_insights(tracker), the page that shows the insights
show_ai_insights ==
  LET p == Insights(expenses_df)
  IN  /\ expenses_df' = p.df
      /\ result' = Result("show_ai_insights", <<>>, p.out)
      /\ UNCHANGED <<budgets, data_file, budget_file, appended, infer_format,
                     second, writers>>

\* ------------------------------------------------------------ second process
\* the same operations run by the second process: they read and write the
\* same two files, from and to the object of that process
other_load_data ==
  /\ other_df' = read_expenses(data_file, infer_format)
  /\ other_budgets' = json_load(budget_file)
  /\ result' = Result("other_load_data", <<>>, Returned(<<>>))
  /\ UNCHANGED <<expenses_df, budgets, data_file, budget_file, appended,
                 infer_format, writers>>

other_add_expense(date, category, amount, description) ==
  LET date_str == IF date.isdate
                  THEN DateStr(date.y, date.m, date.d, FALSE)   \* strftime
                  ELSE DateStr(date.y, date.m, date.d, FALSE)   \* str(date)
      new_expense == [date |-> date_str, category |-> category,
                      amount |-> amount, description |-> description,
                      ym |-> "absent"]
      df == Concat(other_df, new_expense)
  IN  /\ date.isdate => IsCalendarDate(date.y, date.m, date.d)
      /\ other_df' = df
      /\ data_file' = to_csv(df)                                \* save_data
      /\ budget_file' = json_dump(other_budgets)
      /\ appended' = Append(appended,
                       [y |-> date.y, m |-> date.m, d |-> date.d,
                        category |-> category, amount |-> amount,
                        description |-> description])
      /\ result' = Result("other_add_expense", <<>>, Returned(<<>>))
      /\ writers' = writers \cup {2}
      /\ UNCHANGED <<expenses_df, budgets, infer_format, other_budgets>>

other_set_budget(category, budget_amount) ==
  LET dict == [c \in DOMAIN other_budgets \cup {category} |->
                 IF c = category THEN budget_amount ELSE other_budgets[c]]
  IN  /\ other_budgets' = dict
      /\ data_file' = to_csv(other_df)                          \* save_data
      /\ budget_file' = json_dump(dict)
      /\ result' = Result("other_set_budget", <<>>, Returned(<<>>))
      /\ writers' = writers \cup {2}
      /\ UNCHANGED <<expenses_df, budgets, appended, infer_format, other_df>>

\* ------------------------------------------------------------ the store
\* the arguments of add_expense: two dates that exist, one given as a
\* datetime.date and one as a string, and a string naming no date
StoreDates ==
  { [isdate |-> TRUE,  y |-> 2024, m |-> 1, d |-> 31],
    [isdate |-> FALSE, y |-> 2024, m |-> 2, d |-> 1],
    [isdate |-> FALSE, y |-> 2024, m |-> 2, d |-> 30] }

StoreAmounts == {-50, 300}

Descriptions == {"", "lunch"}

BudgetAmounts == {0, 300}

Next ==
  \/ load_data
  \/ /\ Len(appended) < MaxAppends
     /\ \E date \in StoreDates, amount \in StoreAmounts,
           description \in Descriptions :
          add_expense(date, "Food", amount, description)
  \/ \E budget_amount \in BudgetAmounts : set_budget("Food", budget_amount)

Spec == Init /\ [][Next]_vars

\* ------------------------------------------------------------ the queries
\* the last day of a month, the first and the last day of the next, the
\* first day of the month after, and the same month a year later
QueryDates ==
  { [isdate |-> TRUE, y |-> 2023, m |-> 12, d |-> 31],
    [isdate |-> TRUE, y |-> 2024, m |-> 1,  d |-> 1],
    [isdate |-> TRUE, y |-> 2024, m |-> 1,  d |-> 31],
    [isdate |-> TRUE, y |-> 2024, m |-> 2,  d |-> 1],
    [isdate |-> TRUE, y |-> 2025, m |-> 1,  d |-> 1] }

QueryAmounts == {100, 300}

\* the (year, month) arguments of the queries
QueryMonths ==
  { [y |-> 2023, m |-> 12], [y |-> 2024, m |-> 1],
    [y |-> 2024, m |-> 2],  [y |-> 2025, m |-> 1] }

NextQuery ==
  \/ load_data
  \/ /\ Len(appended) < MaxQueryAppends
     /\ \E date \in QueryDates, category \in Categories,
           amount \in QueryAmounts :
          add_expense(date, category, amount, "lunch")
  \/ \E category \in Categories, budget_amount \in BudgetAmounts :
          set_budget(category, budget_amount)
  \/ \E k \in QueryMonths : get_monthly_summary(k.y, k.m)
  \/ \E k \in QueryMonths : get_category_totals(k.y, k.m)
  \/ \E k \in QueryMonths : check_budget_alerts(k.y, k.m)

SpecQuery == Init /\ [][NextQuery]_vars

\* ------------------------------------------------------------ the forecast
\* three consecutive months, across the turn of a year
ForecastDates ==
  { [isdate |-> TRUE, y |-> 2023, m |-> 12, d |-> 31],
    [isdate |-> TRUE, y |-> 2024, m |-> 1,  d |-> 31],
    [isdate |-> TRUE, y |-> 2024, m |-> 2,  d |-> 1] }

ForecastAmounts == {100, 300, 500}

\* the values datetime.now() takes, as (year, month): the latest month of
\* the dates above, and a month long after it
NowMonths == { [y |-> 2024, m |-> 2], [y |-> 2025, m |-> 6] }

NextForecast ==
  \/ load_data
  \/ /\ Len(appended) < MaxForecastAppends
     /\ \E date \in ForecastDates, amount \in ForecastAmounts :
          add_expense(date, "Food", amount, "lunch")
  \/ \E now \in NowMonths : predict_next_month(now)

SpecForecast == Init /\ [][NextForecast]_vars

\* ------------------------------------------------------------ the insights
\* the last day of a year, the first day of the next, and a day two months
\* later, so that a month between them has no record
InsightDates ==
  { [isdate |-> TRUE, y |-> 2023, m |-> 12, d |-> 31],
    [isdate |-> TRUE, y |-> 2024, m |-> 1,  d |-> 1],
    [isdate |-> TRUE, y |-> 2024, m |-> 3,  d |-> 1] }

InsightAmounts == {100, 300}

InsightMonths == { [y |-> 2023, m |-> 12], [y |-> 2024, m |-> 1] }

\* every derived component next to the operations of the store
NextInsight ==
  \/ load_data
  \/ /\ Len(appended) < MaxInsightAppends
     /\ \E date \in InsightDates, amount \in InsightAmounts :
          add_expense(date, "Food", amount, "lunch")
  \/ set_budget("Food", 300)
  \/ \E k \in InsightMonths : get_monthly_summary(k.y, k.m)
  \/ \E k \in InsightMonths : get_category_totals(k.y, k.m)
  \/ \E k \in InsightMonths : check_budget_alerts(k.y, k.m)
  \/ predict_next_month([y |-> 2024, m |-> 3])
  \/ show_ai_insights

SpecInsight == Init /\ [][NextInsight]_vars

\* ------------------------------------------------------------ the trend
\* one expense a month, entered in the order of the months from November
\* 2023 on: the first day of the month that follows the months entered
TrendDate(entered) ==
  LET k == 2023 * 12 + 11 + entered
  IN  [isdate |-> TRUE, y |-> (k - 1) \div 12, m |-> ((k - 1) % 12) + 1,
       d |-> 1]

\* amounts with which a change of exactly 10 and of exactly -10 percent occur
TrendAmounts == {80, 100, 110, 120}

NextTrend ==
  \/ load_data
  \/ /\ Len(appended) < MaxTrendAppends
     /\ \E amount \in TrendAmounts :
          add_expense(TrendDate(Len(appended)), "Food", amount, "lunch")
  \/ show_ai_insights

SpecTrend == Init /\ [][NextTrend]_vars

\* ------------------------------------------------------------ two writers
WriterDates ==
  { [isdate |-> TRUE, y |-> 2024, m |-> 1, d |-> 31],
    [isdate |-> TRUE, y |-> 2024, m |-> 2, d |-> 1] }

\* two processes on one directory, each step one whole call of one of them;
\* load_data is the start of a new ExpenseTracker in that process
NextWriters ==
  \/ load_data
  \/ /\ Len(appended) < MaxWriterAppends
     /\ \E date \in WriterDates : add_expense(date, "Food", 300, "lunch")
  \/ \E category \in Categories : set_budget(category, 300)
  \/ other_load_data
  \/ /\ Len(appended) < MaxWriterAppends
     /\ \E date \in WriterDates : other_add_expense(date, "Food", 300, "lunch")
  \/ \E category \in Categories : other_set_budget(category, 300)

SpecWriters == Init /\ [][NextWriters]_vars

\* ------------------------------------------------------------ properties
\* the frame is the one load_data builds from the files as they are
Loaded == expenses_df = read_expenses(data_file, infer_format)

InMonth(r, year, month) == r.date.y = year /\ r.date.m = month

Spent(rows, category, year, month) ==
  SumAmounts(SelectSeq(rows,
    LAMBDA r : r.category = category /\ InMonth(r, year, month)))

Buckets(rows) == { <<r.date.y, r.date.m>> : r \in Range(rows) }

\* C1: check_budget_alerts(year, month) holds an alert for category c if and
\* only if budgets[c] > 0 and the amounts of the records of c in that month
\* sum to more than budgets[c]; an absent or zero budget never alerts, a
\* budget without a record of that month never alerts.
C1_AlertIffOverBudget ==
  result.op = "check_budget_alerts" =>
    \A c \in Categories :
      (\E i \in 1..Len(result.value) : result.value[i].category = c)
      <=> /\ BudgetOf(budgets, c) > 0
          /\ Spent(expenses_df.rows, c, result.args[1], result.args[2])
               > BudgetOf(budgets, c)

\* C2: after any add_expense calls followed by load_data, the frame holds,
\* in the order of the calls, exactly the (date, category, amount,
\* description) tuples of the calls whose date is a calendar date, each as
\* it was given; a record added with a malformed date is not among them.
C2_RoundTrip ==
  result.op = "load_data" =>
    Tuples(expenses_df.rows)
      = SelectSeq(appended, LAMBDA a : IsCalendarDate(a.y, a.m, a.d))

\* C3: on every loaded frame, get_monthly_summary(year, month) returns
\* exactly the records dated in that year and month, in their order: each
\* of them, and none of an adjacent month or of that month in another year.
C3_MonthlySummaryExact ==
  (result.op = "get_monthly_summary" /\ Loaded) =>
    /\ result.status = "ok"
    /\ result.value = SelectSeq(expenses_df.rows,
         LAMBDA r : InMonth(r, result.args[1], result.args[2]))

\* C4: on every loaded frame, the amounts of get_category_totals(year,
\* month) sum to the amounts of the records of that month, each category of
\* the month appears in it exactly once, and it is empty when the month has
\* no record.
C4_CategoryTotalsSum ==
  (result.op = "get_category_totals" /\ Loaded) =>
    LET monthly == SelectSeq(expenses_df.rows,
                     LAMBDA r : InMonth(r, result.args[1], result.args[2]))
        totals == result.value
    IN  /\ result.status = "ok"
        /\ SumAmounts(totals) = SumAmounts(monthly)
        /\ \A c \in { r.category : r \in Range(monthly) } :
             Cardinality({ i \in 1..Len(totals) : totals[i].category = c }) = 1
        /\ monthly = <<>> => totals = <<>>

\* C5: predict_next_month does not raise for lack of data: with fewer than
\* 3 records it returns (None, "Not enough data for prediction"); with 3 or
\* more records in fewer than 3 (year, month) buckets it returns (None, "Not
\* enough monthly data for prediction"); it returns an amount only when the
\* records fall in at least 3 buckets.
C5_NoRaiseForLackOfData ==
  result.op = "predict_next_month" =>
    LET rows == expenses_df.rows
    IN  /\ Len(rows) < 3 =>
             /\ result.status = "ok"
             /\ result.value = <<NoAmount, "Not enough data for prediction">>
        /\ (Len(rows) >= 3 /\ Cardinality(Buckets(rows)) < 3) =>
             /\ result.status = "ok"
             /\ result.value
                  = <<NoAmount, "Not enough monthly data for prediction">>
        /\ (result.status = "ok" /\ result.value[1] # NoAmount) =>
             Cardinality(Buckets(rows)) >= 3

\* the totals lie on one line over the month numbers
IsLinear(totals) ==
  \A i \in 1..Len(totals) :
    (totals[i].amount - totals[1].amount)
        * (totals[2].month_num - totals[1].month_num)
    = (totals[2].amount - totals[1].amount)
        * (totals[i].month_num - totals[1].month_num)

\* C6: when the monthly totals are an exact linear function a + b*index of
\* the month number over at least 3 months and datetime.now() is in the
\* latest month of the data, predict_next_month returns a + b*(latest + 1),
\* and the value returned is not negative.
C6_LinearExtrapolation ==
  LET totals == MonthlyTotals(expenses_df.rows)
      n == Len(totals)
      dx == totals[2].month_num - totals[1].month_num
      dy == totals[2].amount - totals[1].amount
      next == totals[n].month_num + 1
      v == result.value[1]
  IN  (/\ result.op = "predict_next_month"
       /\ n >= 3
       /\ IsLinear(totals)
       /\ MonthNum(result.args[1], result.args[2]) = totals[n].month_num)
      => /\ result.status = "ok"
         /\ v # NoAmount
         /\ v.num * dx
              = v.den * (totals[1].amount * dx
                           + dy * (next - totals[1].month_num))
         /\ v.num >= 0

\* the least-squares line through the monthly totals, evaluated at month
\* number x, as a fraction: mean(y) + b*(x - mean(x)) with
\* b = sum((x_i - mean(x)) * y_i) / sum((x_i - mean(x))^2), every deviation
\* scaled by n
LeastSquaresAt(totals, x) ==
  LET n  == Len(totals)
      Sx == Sum([i \in 1..n |-> totals[i].month_num])
      Sy == Sum([i \in 1..n |-> totals[i].amount])
      u  == [i \in 1..n |-> n * totals[i].month_num - Sx]
      Suu == Sum([i \in 1..n |-> u[i] * u[i]])
      Suy == Sum([i \in 1..n |-> u[i] * totals[i].amount])
  IN  [num |-> Sy * Suu + n * Suy * (n * x - Sx), den |-> n * Suu]

\* the call returned an amount
Predicted ==
  /\ result.op = "predict_next_month"
  /\ result.status = "ok"
  /\ result.value[1] # NoAmount

RawForecast ==
  LeastSquaresAt(MonthlyTotals(expenses_df.rows),
                 MonthNum(result.args[1], result.args[2]) + 1)

\* C7: whenever predict_next_month returns an amount, the amount is at
\* least 0: it is the least-squares value at the month number of
\* datetime.now() plus one when that value is not negative, and 0 when it is.
C7_ForecastClamped ==
  Predicted =>
    LET v == result.value[1]
        raw == RawForecast
    IN  /\ v.den > 0 /\ raw.den > 0
        /\ v.num >= 0
        /\ raw.num >= 0 => v.num * raw.den = raw.num * v.den
        /\ raw.num < 0 => v.num = 0

\* an amount was returned where the least-squares value is negative
C7_Witness == Predicted /\ RawForecast.num < 0

\* C8: in every state reached by load_data, add_expense and set_budget, no
\* record of the frame and no row of the file has a date that is not a
\* calendar date.
C8_NoUnresolvableDate ==
  /\ \A i \in 1..Len(expenses_df.rows) : Resolvable(expenses_df.rows[i].date)
  /\ \A i \in 1..Len(data_file.rows) : Resolvable(data_file.rows[i].date)

\* C9: in every state reached by load_data and add_expense, every record of
\* the frame has amount > 0.
C9_AmountPositive ==
  \A i \in 1..Len(expenses_df.rows) : expenses_df.rows[i].amount > 0

\* C10: when add_expense or set_budget returns, the expense file holds the
\* frame and the budget file holds the budgets, so that a load_data run
\* right then by a new process yields the same records and the same budgets.
C10_MutationPersistsAll ==
  result.op \in {"add_expense", "set_budget"} =>
    /\ data_file = to_csv(expenses_df)
    /\ budget_file = json_dump(budgets)
    /\ Tuples(read_expenses(data_file, infer_format).rows)
         = Tuples(expenses_df.rows)
    /\ json_load(budget_file) = budgets

\* the calls of the derived components
DerivedOps ==
  {"get_monthly_summary", "get_category_totals", "check_budget_alerts",
   "predict_next_month", "show_ai_insights"}

\* C11: get_monthly_summary, get_category_totals, check_budget_alerts,
\* predict_next_month and show_ai_insights leave the frame (its records,
\* with the columns date, category, amount, description and no other) and
\* the budgets as they were.
C11_QueriesReadOnly ==
  [][result'.op \in DerivedOps =>
       (expenses_df' = expenses_df /\ budgets' = budgets)]_vars

\* the last record of the frame was appended after the frame was last
\* loaded: load_data leaves Timestamps only, add_expense appends a string
AppendedSinceLoad ==
  /\ expenses_df.rows # <<>>
  /\ expenses_df.rows[Len(expenses_df.rows)].date.kind = "str"

\* C12: after add_expense with a calendar date, and no load_data since, a
\* get_monthly_summary, get_category_totals or check_budget_alerts call for
\* the year and month of that date returns normally; the summary ends with
\* the new record, and the totals count its amount.
C12_QueriesSeeAppended ==
  LET rows == expenses_df.rows
      new == rows[Len(rows)]
  IN  (/\ result.op \in {"get_monthly_summary", "get_category_totals",
                         "check_budget_alerts"}
       /\ AppendedSinceLoad
       /\ Resolvable(new.date)
       /\ result.args = <<new.date.y, new.date.m>>)
      => /\ result.status = "ok"
         /\ result.op = "get_monthly_summary" =>
              /\ result.value # <<>>
              /\ result.value[Len(result.value)] = new
         /\ result.op = "get_category_totals" =>
              \E i \in 1..Len(result.value) :
                /\ result.value[i].category = new.category
                /\ result.value[i].amount
                     = Spent(rows, new.category, new.date.y, new.date.m)

\* series holds one entry for each (year, month) of rows and for no other,
\* each with the sum of the amounts of that month, in strictly ascending
\* order of year * 12 + month
IsMonthlySeries(series, rows) ==
  /\ \A k \in Buckets(rows) :
       Cardinality({ i \in 1..Len(series) :
                       <<series[i].year, series[i].month>> = k }) = 1
  /\ \A i \in 1..Len(series) :
       /\ <<series[i].year, series[i].month>> \in Buckets(rows)
       /\ series[i].amount
            = SumAmounts(SelectSeq(rows,
                LAMBDA r : InMonth(r, series[i].year, series[i].month)))
  /\ \A i \in 1..(Len(series) - 1) :
       series[i].year * 12 + series[i].month
         < series[i + 1].year * 12 + series[i + 1].month

InsightsShown ==
  /\ result.op = "show_ai_insights"
  /\ result.status = "ok"
  /\ expenses_df.rows # <<>>

FileTuples(file) ==
  [i \in 1..Len(file.rows) |->
     [y |-> file.rows[i].date.y, m |-> file.rows[i].date.m,
      d |-> file.rows[i].date.d, category |-> file.rows[i].category,
      amount |-> file.rows[i].amount,
      description |-> file.rows[i].description]]

\* each process has made one call of add_expense on the frame it loaded
\* from the same empty directory, the second after the first, and the file
\* holds the record of the second only
LostRecord ==
  /\ writers = {1, 2}
  /\ Len(appended) = 2
  /\ Tuples(expenses_df.rows) = <<appended[1]>>
  /\ Tuples(other_df.rows) = <<appended[2]>>
  /\ FileTuples(data_file) = <<appended[2]>>

\* each process has set one budget, the second after the first, and the
\* file holds the budget of the second only
LostBudget ==
  /\ writers = {1, 2}
  /\ DOMAIN budgets = {"Food"}
  /\ DOMAIN other_budgets = {"Travel"}
  /\ budget_file = json_dump(other_budgets)

\* C15: while one process alone calls add_expense and set_budget, every
\* record it has appended with a calendar date stays in the expense file,
\* and the budget file holds the budgets it has set.  (With two processes
\* the states LostRecord and LostBudget are reached.)
C15_SingleProcessNoLoss ==
  writers = {1} =>
    /\ \A i \in 1..Len(appended) :
         IsCalendarDate(appended[i].y, appended[i].m, appended[i].d) =>
           \E j \in 1..Len(data_file.rows) :
             FileTuples(data_file)[j] = appended[i]
    /\ json_load(budget_file) = budgets

====
